---- MODULE Spec2Model ----
(***************************************************************************)
(* GeoSense-Jordan dashboard (src/app.py and src/modules/*.py).            *)
(*                                                                         *)
(* One Streamlit script pass is modelled as a chain of steps               *)
(*   StartPass -> Authenticate -> ResolveRoi -> RunStep -> DisplayStep     *)
(*             -> ReportStep                                               *)
(* over the session cache (data_captured, stats, chart_img).  The remote   *)
(* Earth Engine backend is an environment: every remote call answers with  *)
(* a value drawn from a small set or raises.                               *)
(*                                                                         *)
(* RoiSpec calls the region resolver directly with any name; HandlerSpec   *)
(* serves single requests through the routing chain and records the        *)
(* remote queries the handler issues.                                      *)
(***************************************************************************)
EXTENDS Integers, Sequences, FiniteSets, TLC

\* ------------------------------------------------------------------ bounds
NumCities == 2      \* how many of the twelve governorates the user may pick
NumPeriods == 1     \* how many (year, month) slider positions the user may pick
MaxSize == 1        \* largest size a remote collection reports
MaxReading == 1     \* largest number a remote statistic reports
MaxCalls == 2       \* how many times a caller calls the region resolver directly

\* ------------------------------------------------------- python values
\* A Python value held in st.session_state.stats: None or an ordered dict,
\* the dict as the sequence of its <<key, value>> items in insertion order.
PyNone == [kind |-> "None", items |-> <<>>]
PyDict(items) == [kind |-> "dict", items |-> items]
EmptyDict == PyDict(<<>>)

\* The chart_img slot holds None or a path string.
NoPath == "None"

DictKeys(d) == {d.items[i][1] : i \in 1..Len(d.items)}

\* dict.get(key, default) on an ordered dict
DictGet(d, key, default) ==
    IF key \in DictKeys(d)
    THEN LET i == CHOOSE j \in 1..Len(d.items) : d.items[j][1] = key
         IN d.items[i][2]
    ELSE default

\* ----------------------------------------------------- remote readings
\* One entry of a reduceRegion(...).getInfo() answer: the key is absent,
\* present with a null, or present with a number.
Absent == [tag |-> "absent", v |-> 0]
Null == [tag |-> "null", v |-> 0]
Num(n) == [tag |-> "num", v |-> n]

\* stats.get(key): an absent key reads as None
StatGet(r) == IF r.tag = "absent" THEN Null ELSE r
\* stats.get(key, 0): an absent key reads as 0, a null stays None
StatGetOrZero(r) == IF r.tag = "absent" THEN Num(0) ELSE r
\* Python truthiness of a reading: None and 0 are falsy
Truthy(r) == r.tag = "num" /\ r.v # 0
\* x or 0
OrZero(r) == IF Truthy(r) THEN r ELSE Num(0)

\* f"{x:.1f}", f"{x:.2f}", f"{x:.2e}" of a number (readings are small naturals)
Fmt1f(r) == ToString(r.v) \o ".0"
Fmt2f(r) == ToString(r.v) \o ".00"
Fmt2e(r) == ToString(r.v) \o ".00e+00"

\* ---------------------------------------------------- handler outcomes
Return(v) == [raised |-> FALSE, value |-> v, err |-> ""]
Raise(msg) == [raised |-> TRUE, value |-> PyNone, err |-> msg]

ErrRemote == "EEException: remote call failed"
ErrFormatNone == "unsupported format string passed to NoneType.__format__"
ErrEmptyFirst == "Image.clip: Parameter 'input' is required."
ErrUnbound == "local variable 'results' referenced before assignment"

\* The remote environment of one handler call:
\*   size   what collection.size().getInfo() answers for the period
\*   fails  the remote calls that raise
\*   stats  the first reduceRegion answer, stats2 the second (dem slope)
StatKeys == {"mean", "max", "min"}
Calls == {"size", "stats", "stats2", "render", "train", "bounds", "export"}

\* ---------------------------------------------------------- handlers
\* modules/lst.py
lst_run(env) ==
    IF "size" \in env.fails THEN Raise(ErrRemote)
    ELSE IF env.size = 0 THEN Return(PyDict(<< <<"Status", "No Data Found">> >>))
    ELSE IF "stats" \in env.fails THEN Raise(ErrRemote)
    ELSE LET mean_temp == StatGet(env.stats["mean"])
             max_temp == StatGet(env.stats["max"])
             min_temp == StatGet(env.stats["min"])
         IN IF mean_temp.tag = "null" \/ max_temp.tag = "null" THEN Raise(ErrFormatNone)
            ELSE IF "render" \in env.fails THEN Raise(ErrRemote)
            ELSE IF min_temp.tag = "null" THEN Raise(ErrFormatNone)
            ELSE Return(PyDict(<<
                    <<"Mean Surface Temp", Fmt2f(mean_temp) \o " C">>,
                    <<"Max Surface Temp", Fmt2f(max_temp) \o " C">>,
                    <<"Min Surface Temp", Fmt2f(min_temp) \o " C">>,
                    <<"Satellite Platform", "MODIS Terra">>,
                    <<"Spatial Resolution", "1,000 meters">>,
                    <<"Correction Method", "Radiometric Scaling (Kelvin-Celsius)">> >>))

\* modules/rainfall.py: the whole body sits in one try/except
rainfall_error(msg) == Return(PyDict(<< <<"Status", "Error">>, <<"Message", msg>> >>))

rainfall_run(env) ==
    IF env.size = 0 THEN rainfall_error(ErrEmptyFirst)
    ELSE IF "stats" \in env.fails THEN rainfall_error(ErrRemote)
    ELSE LET mean_val == OrZero(StatGet(env.stats["mean"]))
             max_val == OrZero(StatGet(env.stats["max"]))
         IN IF "render" \in env.fails THEN rainfall_error(ErrRemote)
            ELSE Return(PyDict(<<
                    <<"Module", "Precipitation Analysis">>,
                    <<"Mean Monthly Rainfall", Fmt2f(mean_val) \o " mm">>,
                    <<"Max Monthly Rainfall", Fmt2f(max_val) \o " mm">>,
                    <<"Data Source", "ECMWF ERA5-Land Reanalysis">>,
                    <<"Spatial Resolution", "11km (0.1°)">> >>))

\* modules/dem_analysis.py: the statistics sit in a try, the maps do not
dem_analysis_run(env) ==
    IF "stats" \in env.fails \/ "stats2" \in env.fails
    THEN Return(PyDict(<< <<"Status", "Error">> >>))
    ELSE LET e_mean == StatGetOrZero(env.stats["mean"])
             e_max == StatGetOrZero(env.stats["max"])
             e_min == StatGetOrZero(env.stats["min"])
             s_mean == StatGetOrZero(env.stats2["mean"])
             s_max == StatGetOrZero(env.stats2["max"])
         IN IF \E r \in {e_mean, e_max, e_min, s_mean, s_max} : r.tag = "null"
            THEN Return(PyDict(<< <<"Status", "Error">> >>))
            ELSE IF "render" \in env.fails THEN Raise(ErrRemote)
            ELSE Return(PyDict(<<
                    <<"Mean Elevation", Fmt1f(e_mean) \o " m">>,
                    <<"Max Elevation", Fmt1f(e_max) \o " m">>,
                    <<"Min Elevation", Fmt1f(e_min) \o " m">>,
                    <<"Mean Slope", Fmt1f(s_mean) \o "°">>,
                    <<"Max Slope", Fmt1f(s_max) \o "°">>,
                    <<"DEM Source", "JAXA ALOS AW3D30">> >>))

\* modules/flood_mapping.py: a bare return on an empty collection, and no
\* return statement at the end
flood_mapping_run(env) ==
    IF "size" \in env.fails THEN Raise(ErrRemote)
    ELSE IF env.size = 0 THEN Return(PyNone)
    ELSE IF "render" \in env.fails THEN Raise(ErrRemote)
    ELSE IF "stats" \in env.fails THEN Raise(ErrRemote)
    ELSE IF "bounds" \in env.fails THEN Raise(ErrRemote)
    ELSE Return(PyNone)

\* modules/rs_indices.py: an empty collection widens the search; histogram
\* and export are guarded, the map is not; no return statement
rs_indices_run(env) ==
    IF "size" \in env.fails THEN Raise(ErrRemote)
    ELSE IF "render" \in env.fails THEN Raise(ErrRemote)
    ELSE Return(PyNone)

\* modules/air_quality.py: the first key of pollutant_map contained in the
\* choice, "NO2" when none is
PollutantKeys == <<"NO2", "CO", "O3", "SO2">>

\* k in pollutant_choice, for the choices a caller can pass
StrContains(choice, k) ==
    CASE choice = "NO2" -> k = "NO2"
      [] choice = "CO" -> k = "CO"
      [] choice = "O3" -> k = "O3"
      [] choice = "SO2" -> k = "SO2"
      [] OTHER -> FALSE

pollutant_key(choice) ==
    LET hits == {i \in 1..Len(PollutantKeys) : StrContains(choice, PollutantKeys[i])}
    IN IF hits = {} THEN "NO2"
       ELSE PollutantKeys[CHOOSE i \in hits : \A j \in hits : i <= j]

air_quality_run(env, pollutant_choice) ==
    LET key == pollutant_key(pollutant_choice)
    IN IF "size" \in env.fails THEN Raise(ErrRemote)
       ELSE IF env.size = 0 THEN Return(PyDict(<< <<"Status", "No Data Found">> >>))
       ELSE IF "stats" \in env.fails THEN Raise(ErrRemote)
       ELSE LET mean_val == StatGet(env.stats["mean"])
                max_val == StatGet(env.stats["max"])
                fmt_mean == IF Truthy(mean_val) THEN Fmt2e(mean_val) ELSE "N/A"
                fmt_max == IF Truthy(max_val) THEN Fmt2e(max_val) ELSE "N/A"
            IN IF "render" \in env.fails THEN Raise(ErrRemote)
               ELSE Return(PyDict(<<
                       <<"Pollutant", key>>,
                       <<"Mean Concentration", fmt_mean \o " mol/m²">>,
                       <<"Max Concentration", fmt_max \o " mol/m²">>,
                       <<"Data Source", "Copernicus Sentinel-5P">>,
                       <<"Resolution", "1.1 km">> >>))

\* modules/wildfire.py: no return statement on either branch
wildfire_run(env) ==
    IF "size" \in env.fails THEN Raise(ErrRemote)
    ELSE IF env.size > 0
         THEN IF "stats" \in env.fails THEN Raise(ErrRemote)
              ELSE IF "render" \in env.fails THEN Raise(ErrRemote)
              ELSE Return(PyNone)
         ELSE IF "render" \in env.fails THEN Raise(ErrRemote)
              ELSE Return(PyNone)

\* modules/land_cover.py: an empty collection widens the search; a failed
\* training returns, the map and the export are unguarded; no return value
land_cover_run(env) ==
    IF "size" \in env.fails THEN Raise(ErrRemote)
    ELSE IF "train" \in env.fails THEN Return(PyNone)
    ELSE IF "render" \in env.fails THEN Raise(ErrRemote)
    ELSE IF "export" \in env.fails THEN Raise(ErrRemote)
    ELSE Return(PyNone)

\* -------------------------------------------------- remote environments
\* The answers a handler can get, per selector: only the fields the handler
\* reads vary, the others are fixed.
\* A reduceRegion answer over `keys`: the empty dict (an image without
\* bands), or every key present, each with a null or with the number n the
\* region reads.
ZeroStats == [k \in StatKeys |-> Num(0)]
StatsOver(keys) ==
    {[k \in StatKeys |-> IF k \in keys THEN Absent ELSE Num(0)]}
    \cup {[k \in StatKeys |-> IF k \in keys /\ k \in nulls THEN Null ELSE IF k \in keys THEN Num(n) ELSE Num(0)] :
            nulls \in SUBSET keys, n \in 0..MaxReading}

Env(size, fails, st, st2) == [size |-> size, fails |-> fails, stats |-> st, stats2 |-> st2]

LstEnvs == {Env(n, f, s, ZeroStats) :
              n \in 0..MaxSize, f \in SUBSET {"size", "stats", "render"}, s \in StatsOver(StatKeys)}
RainfallEnvs == {Env(n, f, s, ZeroStats) :
              n \in 0..MaxSize, f \in SUBSET {"stats", "render"}, s \in StatsOver({"mean", "max"})}
DemEnvs == {Env(1, f, s, s2) :
              f \in SUBSET {"stats", "stats2", "render"}, s \in StatsOver(StatKeys),
              s2 \in StatsOver({"mean", "max"})}
FloodEnvs == {Env(n, f, s, ZeroStats) :
              n \in 0..MaxSize, f \in SUBSET {"size", "stats", "render", "bounds", "export"},
              s \in StatsOver({"mean"})}
IndicesEnvs == {Env(n, f, ZeroStats, ZeroStats) :
              n \in 0..MaxSize, f \in SUBSET {"size", "render", "stats", "export"}}
AirEnvs == {Env(n, f, s, ZeroStats) :
              n \in 0..MaxSize, f \in SUBSET {"size", "stats", "render"}, s \in StatsOver({"mean", "max"})}
WildfireEnvs == {Env(n, f, s, ZeroStats) :
              n \in 0..MaxSize, f \in SUBSET {"size", "stats", "render", "export"},
              s \in StatsOver({"max"})}
LandCoverEnvs == {Env(n, f, ZeroStats, ZeroStats) :
              n \in 0..MaxSize, f \in SUBSET {"size", "train", "stats", "render", "export"}}

\* ------------------------------------------------- remote queries
\* The remote queries a handler issues, in order.  A query is the call, the
\* date window of the collection it is about ("period": the requested month,
\* "widened": the month and the months before it, "none": no collection),
\* and whether it raised.
Query(call, window, failed) == [call |-> call, window |-> window, failed |-> failed]

\* The queries, one after the other, up to and including the first of them
\* that raises and is not guarded by a try of its own.
RECURSIVE Issue(_, _, _)
Issue(plan, guarded, env) ==
    IF plan = <<>> THEN <<>>
    ELSE LET call == Head(plan)[1]
             q == Query(call, Head(plan)[2], call \in env.fails)
         IN IF q.failed /\ call \notin guarded THEN <<q>>
            ELSE <<q>> \o Issue(Tail(plan), guarded, env)

lst_queries(env) ==
    IF "size" \in env.fails \/ env.size = 0 THEN Issue(<< <<"size", "period">> >>, {}, env)
    ELSE IF "stats" \notin env.fails
            /\ (StatGet(env.stats["mean"]).tag = "null" \/ StatGet(env.stats["max"]).tag = "null")
         THEN Issue(<< <<"size", "period">>, <<"stats", "period">> >>, {}, env)
         ELSE Issue(<< <<"size", "period">>, <<"stats", "period">>, <<"render", "period">> >>, {}, env)

\* rainfall has no size query: the first query about an empty collection raises
rainfall_queries(env) ==
    IF env.size = 0 THEN <<Query("stats", "period", TRUE)>>
    ELSE Issue(<< <<"stats", "period">>, <<"render", "period">> >>, {}, env)

\* the elevation model is one image, not a dated collection
dem_analysis_queries(env) ==
    IF "stats" \in env.fails \/ "stats2" \in env.fails
       \/ \E r \in {StatGetOrZero(env.stats[k]) : k \in StatKeys}
                   \cup {StatGetOrZero(env.stats2[k]) : k \in {"mean", "max"}} : r.tag = "null"
    THEN Issue(<< <<"stats", "none">>, <<"stats2", "none">> >>, {}, env)
    ELSE Issue(<< <<"stats", "none">>, <<"stats2", "none">>, <<"render", "none">> >>, {}, env)

flood_mapping_queries(env) ==
    IF "size" \in env.fails \/ env.size = 0 THEN Issue(<< <<"size", "period">> >>, {}, env)
    ELSE Issue(<< <<"size", "period">>, <<"render", "period">>, <<"stats", "period">>,
                  <<"bounds", "none">>, <<"export", "period">> >>, {"export"}, env)

\* rs_indices_queries without the widening
rs_indices_queries_NoWidening(env) ==
    Issue(<< <<"size", "period">>, <<"render", "period">>, <<"stats", "period">>,
             <<"export", "period">> >>, {"stats", "export"}, env)

\* an empty collection is replaced by the collection of the six months before
rs_indices_queries(env) ==
    LET window == IF "size" \notin env.fails /\ env.size = 0 THEN "widened" ELSE "period"
    IN Issue(<< <<"size", "period">>, <<"render", window>>, <<"stats", window>>,
                <<"export", window>> >>, {"stats", "export"}, env)

air_quality_queries(env) ==
    IF "size" \in env.fails \/ env.size = 0 THEN Issue(<< <<"size", "period">> >>, {}, env)
    ELSE Issue(<< <<"size", "period">>, <<"stats", "period">>, <<"render", "period">> >>, {}, env)

\* without a fire the handler still draws a map of the region
wildfire_queries(env) ==
    IF "size" \in env.fails THEN Issue(<< <<"size", "period">> >>, {}, env)
    ELSE IF env.size > 0
         THEN Issue(<< <<"size", "period">>, <<"stats", "period">>, <<"render", "period">>,
                       <<"export", "period">> >>, {"export"}, env)
         ELSE Issue(<< <<"size", "period">>, <<"render", "none">> >>, {}, env)

\* an empty collection is replaced by the collection of the three months
\* before; a failed training ends the handler without an exception
land_cover_queries(env) ==
    LET window == IF "size" \notin env.fails /\ env.size = 0 THEN "widened" ELSE "period"
    IN IF "size" \in env.fails \/ "train" \in env.fails
       THEN Issue(<< <<"size", "period">>, <<"train", window>> >>, {}, env)
       ELSE Issue(<< <<"size", "period">>, <<"train", window>>, <<"stats", window>>,
                     <<"render", window>>, <<"export", window>> >>, {"stats"}, env)

\* ------------------------------------------------------------ app.py
jordan_governorates ==
    <<"Amman", "Irbid", "Zarqa", "Aqaba", "Madaba", "Mafraq", "Balqa", "Jerash",
      "Karak", "Ma'an", "Tafilah", "Ajloun">>
month_names ==
    <<"Jan", "Feb", "Mar", "Apr", "May", "Jun", "Jul", "Aug", "Sep", "Oct", "Nov", "Dec">>
DefaultYear == 2025

SelRainfall == "Precipitation & Rainfall (NASA GPM)"
SelDem == "Terrain Analysis (DEM / Slope / Aspect)"
SelFlood == "Flood Mapping & Risk (SAR)"
SelIndices == "Spectral Indices & Environmental Metrics"
SelAir == "Air Quality Monitoring (Sentinel-5P)"
SelLst == "Land Surface Temperature (LST)"
SelWildfire == "Active Wildfires (FIRMS)"
SelLandCover == "Land Cover Classification"
AnalysisTypes ==
    <<SelRainfall, SelDem, SelFlood, SelIndices, SelAir, SelLst, SelWildfire, SelLandCover>>

Range(s) == {s[i] : i \in 1..Len(s)}
Cities == {jordan_governorates[i] : i \in 1..NumCities}
\* The slider positions the user moves between: the default year and "Jan",
\* then the next year with the next month, ...
Periods == {<<DefaultYear + i - 1, month_names[i]>> : i \in 1..NumPeriods}

EnvsFor(sel) ==
    CASE sel = SelRainfall -> RainfallEnvs
      [] sel = SelDem -> DemEnvs
      [] sel = SelFlood -> FloodEnvs
      [] sel = SelIndices -> IndicesEnvs
      [] sel = SelAir -> AirEnvs
      [] sel = SelLst -> LstEnvs
      [] sel = SelWildfire -> WildfireEnvs
      [] OTHER -> LandCoverEnvs

\* Route with the wildfire branch pasted from the land-cover one
Route_CopyPaste(sel, env) ==
    IF sel = SelRainfall THEN [called |-> <<"rainfall">>, passed |-> <<>>, outcome |-> rainfall_run(env)]
    ELSE IF sel = SelDem THEN [called |-> <<"dem_analysis">>, passed |-> <<>>, outcome |-> dem_analysis_run(env)]
    ELSE IF sel = SelFlood THEN [called |-> <<"flood_mapping">>, passed |-> <<>>, outcome |-> flood_mapping_run(env)]
    ELSE IF sel = SelIndices THEN [called |-> <<"rs_indices">>, passed |-> <<>>, outcome |-> rs_indices_run(env)]
    ELSE IF sel = SelAir THEN [called |-> <<"air_quality">>, passed |-> <<"NO2">>, outcome |-> air_quality_run(env, "NO2")]
    ELSE IF sel = SelLst THEN [called |-> <<"lst">>, passed |-> <<>>, outcome |-> lst_run(env)]
    ELSE IF sel = SelWildfire THEN [called |-> <<"land_cover">>, passed |-> <<>>, outcome |-> land_cover_run(env)]
    ELSE IF sel = SelLandCover THEN [called |-> <<"land_cover">>, passed |-> <<>>, outcome |-> land_cover_run(env)]
    ELSE [called |-> <<>>, passed |-> <<>>, outcome |-> Raise(ErrUnbound)]

\* The if/elif routing chain: the handlers it calls, in order, the pollutant
\* argument it passes, and what the last handler did.  A selector no branch
\* matches leaves `results` unbound.
Route(sel, env) ==
    IF sel = SelRainfall THEN [called |-> <<"rainfall">>, passed |-> <<>>, outcome |-> rainfall_run(env)]
    ELSE IF sel = SelDem THEN [called |-> <<"dem_analysis">>, passed |-> <<>>, outcome |-> dem_analysis_run(env)]
    ELSE IF sel = SelFlood THEN [called |-> <<"flood_mapping">>, passed |-> <<>>, outcome |-> flood_mapping_run(env)]
    ELSE IF sel = SelIndices THEN [called |-> <<"rs_indices">>, passed |-> <<>>, outcome |-> rs_indices_run(env)]
    ELSE IF sel = SelAir THEN [called |-> <<"air_quality">>, passed |-> <<"NO2">>, outcome |-> air_quality_run(env, "NO2")]
    ELSE IF sel = SelLst THEN [called |-> <<"lst">>, passed |-> <<>>, outcome |-> lst_run(env)]
    ELSE IF sel = SelWildfire THEN [called |-> <<"wildfire">>, passed |-> <<>>, outcome |-> wildfire_run(env)]
    ELSE IF sel = SelLandCover THEN [called |-> <<"land_cover">>, passed |-> <<>>, outcome |-> land_cover_run(env)]
    ELSE [called |-> <<>>, passed |-> <<>>, outcome |-> Raise(ErrUnbound)]

\* RunAnalysis with `results = {}` ahead of the routing and the store in a
\* finally clause: a raising handler stores the empty mapping
RunAnalysis_StoreOnRaise(cache, city, r) ==
    IF r.outcome.raised
    THEN [stats |-> EmptyDict, data_captured |-> cache.data_captured,
          chart_img |-> NoPath, written |-> {"chart_img", "stats"},
          called |-> r.called, outcome |-> r.outcome,
          shown |-> <<"Execution Error: " \o r.outcome.err>>, propagated |-> FALSE]
    ELSE [stats |-> r.outcome.value, data_captured |-> TRUE,
          chart_img |-> NoPath, written |-> {"chart_img", "stats", "data_captured"},
          called |-> r.called, outcome |-> r.outcome,
          shown |-> <<"Computation for " \o city \o " completed successfully.">>,
          propagated |-> FALSE]

\* RunAnalysis with the chart slot cleared after the routing instead of
\* before it: a raising handler leaves the old chart reference
RunAnalysis_ClearAfterRoute(cache, city, r) ==
    IF r.outcome.raised
    THEN [stats |-> cache.stats, data_captured |-> cache.data_captured,
          chart_img |-> cache.chart_img, written |-> {},
          called |-> r.called, outcome |-> r.outcome,
          shown |-> <<"Execution Error: " \o r.outcome.err>>, propagated |-> FALSE]
    ELSE [stats |-> r.outcome.value, data_captured |-> TRUE,
          chart_img |-> NoPath, written |-> {"chart_img", "stats", "data_captured"},
          called |-> r.called, outcome |-> r.outcome,
          shown |-> <<"Computation for " \o city \o " completed successfully.">>,
          propagated |-> FALSE]

\* RunAnalysis without the try/except: a raising handler ends the script
RunAnalysis_NoExcept(cache, city, r) ==
    IF r.outcome.raised
    THEN [stats |-> cache.stats, data_captured |-> cache.data_captured,
          chart_img |-> NoPath, written |-> {"chart_img"},
          called |-> r.called, outcome |-> r.outcome,
          shown |-> <<>>, propagated |-> TRUE]
    ELSE [stats |-> r.outcome.value, data_captured |-> TRUE,
          chart_img |-> NoPath, written |-> {"chart_img", "stats", "data_captured"},
          called |-> r.called, outcome |-> r.outcome,
          shown |-> <<"Computation for " \o city \o " completed successfully.">>,
          propagated |-> FALSE]

\* What the routing chain can do for a selector, over every answer of the
\* backend; empty: the collection of the requested period had no image.
EmptyPeriod(env) == env.size = 0 /\ "size" \notin env.fails

\* The remote queries of the handler the routing chain calls.
Queries(sel, env) ==
    IF sel = SelRainfall THEN rainfall_queries(env)
    ELSE IF sel = SelDem THEN dem_analysis_queries(env)
    ELSE IF sel = SelFlood THEN flood_mapping_queries(env)
    ELSE IF sel = SelIndices THEN rs_indices_queries(env)
    ELSE IF sel = SelAir THEN air_quality_queries(env)
    ELSE IF sel = SelLst THEN lst_queries(env)
    ELSE IF sel = SelWildfire THEN wildfire_queries(env)
    ELSE IF sel = SelLandCover THEN land_cover_queries(env)
    ELSE <<>>
Routed ==
    [sel \in Range(AnalysisTypes) |->
        {[route |-> Route(sel, env), empty |-> EmptyPeriod(env)] : env \in EnvsFor(sel)}]

\* RunAnalysis with the cache emptied when the handler raises
RunAnalysis_ResetOnRaise(cache, city, r) ==
    IF r.outcome.raised
    THEN [stats |-> EmptyDict, data_captured |-> FALSE,
          chart_img |-> NoPath, written |-> {"chart_img", "stats", "data_captured"},
          called |-> r.called, outcome |-> r.outcome,
          shown |-> <<"Execution Error: " \o r.outcome.err>>, propagated |-> FALSE]
    ELSE [stats |-> r.outcome.value, data_captured |-> TRUE,
          chart_img |-> NoPath, written |-> {"chart_img", "stats", "data_captured"},
          called |-> r.called, outcome |-> r.outcome,
          shown |-> <<"Computation for " \o city \o " completed successfully.">>,
          propagated |-> FALSE]

\* RunAnalysis with the returned mapping merged into the cached one
\* (stats.update(results)) instead of replacing it
RunAnalysis_MergeIntoCache(cache, city, r) ==
    IF r.outcome.raised
    THEN [stats |-> cache.stats, data_captured |-> cache.data_captured,
          chart_img |-> NoPath, written |-> {"chart_img"},
          called |-> r.called, outcome |-> r.outcome,
          shown |-> <<"Execution Error: " \o r.outcome.err>>, propagated |-> FALSE]
    ELSE [stats |-> IF cache.stats.kind = "dict" /\ r.outcome.value.kind = "dict"
                    THEN PyDict(SelectSeq(cache.stats.items,
                                          LAMBDA item : item[1] \notin DictKeys(r.outcome.value))
                                \o r.outcome.value.items)
                    ELSE r.outcome.value,
          data_captured |-> TRUE,
          chart_img |-> NoPath, written |-> {"chart_img", "stats", "data_captured"},
          called |-> r.called, outcome |-> r.outcome,
          shown |-> <<"Computation for " \o city \o " completed successfully.">>,
          propagated |-> FALSE]

\* RunAnalysis with `results = None` ahead of the routing and the store in a
\* finally clause: a raising handler stores None
RunAnalysis_StoreNoneOnRaise(cache, city, r) ==
    IF r.outcome.raised
    THEN [stats |-> PyNone, data_captured |-> cache.data_captured,
          chart_img |-> NoPath, written |-> {"chart_img", "stats"},
          called |-> r.called, outcome |-> r.outcome,
          shown |-> <<"Execution Error: " \o r.outcome.err>>, propagated |-> FALSE]
    ELSE [stats |-> r.outcome.value, data_captured |-> TRUE,
          chart_img |-> NoPath, written |-> {"chart_img", "stats", "data_captured"},
          called |-> r.called, outcome |-> r.outcome,
          shown |-> <<"Computation for " \o city \o " completed successfully.">>,
          propagated |-> FALSE]

\* RunAnalysis that reports success only for a mapping without a Status key
RunAnalysis_SuccessOnlyForMetrics(cache, city, r) ==
    IF r.outcome.raised
    THEN [stats |-> cache.stats, data_captured |-> cache.data_captured,
          chart_img |-> NoPath, written |-> {"chart_img"},
          called |-> r.called, outcome |-> r.outcome,
          shown |-> <<"Execution Error: " \o r.outcome.err>>, propagated |-> FALSE]
    ELSE IF r.outcome.value.kind = "None" \/ "Status" \in DictKeys(r.outcome.value)
    THEN [stats |-> r.outcome.value, data_captured |-> cache.data_captured,
          chart_img |-> NoPath, written |-> {"chart_img", "stats"},
          called |-> r.called, outcome |-> r.outcome,
          shown |-> <<>>, propagated |-> FALSE]
    ELSE [stats |-> r.outcome.value, data_captured |-> TRUE,
          chart_img |-> NoPath, written |-> {"chart_img", "stats", "data_captured"},
          called |-> r.called, outcome |-> r.outcome,
          shown |-> <<"Computation for " \o city \o " completed successfully.">>,
          propagated |-> FALSE]

\* The body of the run button: try / clear chart / route / store / except.
\* `cache` is the session state on entry and r what the routing chain did;
\* `written` names the session slots the body assigned; `propagated` says an
\* exception left the body.
RunAnalysis(cache, city, r) ==
    IF r.outcome.raised
    THEN [stats |-> cache.stats, data_captured |-> cache.data_captured,
          chart_img |-> NoPath, written |-> {"chart_img"},
          called |-> r.called, outcome |-> r.outcome,
          shown |-> <<"Execution Error: " \o r.outcome.err>>, propagated |-> FALSE]
    ELSE [stats |-> r.outcome.value, data_captured |-> TRUE,
          chart_img |-> NoPath, written |-> {"chart_img", "stats", "data_captured"},
          called |-> r.called, outcome |-> r.outcome,
          shown |-> <<"Computation for " \o city \o " completed successfully.">>,
          propagated |-> FALSE]

\* -------------------------------------------------- utils/helpers.py
\* What the secrets store and the credential exchange can do.
AuthEnvs == {"ok", "secret_missing", "bad_json", "bad_credentials", "init_fails"}

\* authenticate_gee without the try/except around the credential exchange
authenticate_gee_NoTry(authenv) ==
    IF authenv # "secret_missing"
    THEN IF authenv = "ok"
         THEN [ok |-> TRUE, raised |-> FALSE, shown |-> <<>>]
         ELSE [ok |-> FALSE, raised |-> TRUE, shown |-> <<>>]
    ELSE [ok |-> FALSE, raised |-> FALSE,
          shown |-> <<"GEE_JSON was not found in Streamlit Secrets configuration.">>]

authenticate_gee(authenv) ==
    IF authenv # "secret_missing"
    THEN IF authenv = "ok"
         THEN [ok |-> TRUE, raised |-> FALSE, shown |-> <<>>]
         ELSE [ok |-> FALSE, raised |-> FALSE,
               shown |-> <<"Failed to connect to Google Earth Engine: " \o authenv>>]
    ELSE [ok |-> FALSE, raised |-> FALSE,
          shown |-> <<"GEE_JSON was not found in Streamlit Secrets configuration.">>]

\* --------------------------------------------- utils/geometry_utils.py
name_mapping(area_name) ==
    CASE area_name = "Amman" -> "Amman"
      [] area_name = "Irbid" -> "Irbid"
      [] area_name = "Zarqa" -> "Az Zarqa"
      [] area_name = "Aqaba" -> "Al Aqabah"
      [] area_name = "Madaba" -> "Madaba"
      [] area_name = "Mafraq" -> "Al Mafraq"
      [] area_name = "Balqa" -> "Al Balqa"
      [] area_name = "Jerash" -> "Jarash"
      [] area_name = "Karak" -> "Al Karak"
      [] area_name = "Ma'an" -> "Ma'an"
      [] area_name = "Tafilah" -> "At Tafilah"
      [] area_name = "Ajloun" -> "Ajlun"
      [] OTHER -> area_name

\* The keys of name_mapping.
name_mapping_keys ==
    {"Amman", "Irbid", "Zarqa", "Aqaba", "Madaba", "Mafraq", "Balqa", "Jerash",
     "Karak", "Ma'an", "Tafilah", "Ajloun"}

\* The ADM1_NAME values of the Jordan features of the boundary dataset: the
\* names the mapping gives as the dataset's.
GaulNames == {name_mapping(k) : k \in name_mapping_keys}

\* The names a caller may pass: the twelve of the sidebar, the dataset's own
\* spellings, and names the mapping does not know.
AreaNames ==
    name_mapping_keys \cup GaulNames
    \cup {"", "Al", "Ma", "amman", "Jordan", "Atlantis"}

\* ee.Filter.stringContains('ADM1_NAME', area_name): the dataset names that
\* contain area_name (case-sensitive), for the names of AreaNames.
GaulContaining(area_name) ==
    CASE area_name = "" -> GaulNames
      [] area_name = "Al" -> {"Al Aqabah", "Al Mafraq", "Al Balqa", "Al Karak"}
      [] area_name = "Ma" -> {"Madaba", "Ma'an", "Al Mafraq"}
      [] area_name = "Zarqa" -> {"Az Zarqa"}
      [] area_name = "Aqaba" -> {"Al Aqabah"}
      [] area_name = "Mafraq" -> {"Al Mafraq"}
      [] area_name = "Balqa" -> {"Al Balqa"}
      [] area_name = "Karak" -> {"Al Karak"}
      [] area_name = "Tafilah" -> {"At Tafilah"}
      [] area_name \in GaulNames -> {area_name}
      [] OTHER -> {}

\* The sidebar names the mapping respells.
Respelled == {k \in name_mapping_keys : name_mapping(k) # k}

\* The ADM1 names the dataset holds: the mapping's spellings, or these with
\* the feature of one governorate (alt) under the sidebar's spelling.
Dataset(alt) == IF alt = "" THEN GaulNames ELSE (GaulNames \ {name_mapping(alt)}) \cup {alt}

\* area_name is a substring of the dataset name g (case-sensitive)
StrIn(area_name, g) ==
    \/ g \in GaulContaining(area_name)
    \/ g \in name_mapping_keys
         /\ (area_name = g \/ area_name = ""
               \/ (area_name = "Ma" /\ g \in {"Madaba", "Mafraq", "Ma'an"}))

\* What the resolver meets: whether its one remote call, roi.size().getInfo(),
\* raises, and how the dataset spells its features.
RoiEnvs == [fails : BOOLEAN, alt : {""} \cup Respelled]

\* A region value: the collection it is filtered from, the filter, the name
\* filtered on, and whether no feature matches.  raised: the call ended in an
\* exception instead of a value.
Region(source, filter, name, empty) ==
    [source |-> source, filter |-> filter, name |-> name, empty |-> empty, raised |-> FALSE]
NoRoi == [source |-> "", filter |-> "", name |-> "", empty |-> TRUE, raised |-> FALSE]
RoiRaised == [source |-> "", filter |-> "", name |-> "", empty |-> TRUE, raised |-> TRUE]

\* get_country_roi without the try/except
get_country_roi_NoTry(area_name, roienv) ==
    IF roienv.fails
    THEN RoiRaised
    ELSE LET search_name == name_mapping(area_name)
         IN IF search_name \in Dataset(roienv.alt)
            THEN Region("GAUL", "eq", search_name, FALSE)
            ELSE Region("GAUL", "stringContains", area_name,
                        \A g \in Dataset(roienv.alt) : ~StrIn(area_name, g))

\* get_country_roi with the substring search made on the mapped name
get_country_roi_ContainsMapped(area_name, roienv) ==
    IF roienv.fails
    THEN Region("LSIB", "country_na", "Jordan", FALSE)
    ELSE LET search_name == name_mapping(area_name)
         IN IF search_name \in Dataset(roienv.alt)
            THEN Region("GAUL", "eq", search_name, FALSE)
            ELSE Region("GAUL", "stringContains", search_name,
                        \A g \in Dataset(roienv.alt) : ~StrIn(search_name, g))

get_country_roi(area_name, roienv) ==
    IF roienv.fails
    THEN Region("LSIB", "country_na", "Jordan", FALSE)
    ELSE LET search_name == name_mapping(area_name)
         IN IF search_name \in Dataset(roienv.alt)
            THEN Region("GAUL", "eq", search_name, FALSE)
            ELSE Region("GAUL", "stringContains", area_name,
                        \A g \in Dataset(roienv.alt) : ~StrIn(area_name, g))

\* ------------------------------------------------ modules/time_series.py
TsMonths == 12
\* A month's answers: the collection is empty; it is not and the statistic
\* is null or a value; the size call raises; the statistics call raises.
TsAnswers == {"empty", "null", "value", "raise", "raise_stats"}

\* What the backend answers for the twelve months: one answer throughout, or
\* one month that differs from the others.
TsEnvs ==
    {[m \in 1..TsMonths |-> IF m = odd THEN a ELSE base] :
        base \in TsAnswers \ {"raise"}, odd \in 1..TsMonths, a \in TsAnswers}

\* word in analysis_type, for the targets the app passes
TsContains(analysis_type, word) ==
    CASE word = "Air Quality" -> analysis_type = "Air Quality"
      [] word = "Vegetation" -> analysis_type = "Vegetation"
      [] word = "Indices" -> FALSE
      [] word = "Temp" -> analysis_type = "Temp"
      [] word = "Rainfall" -> analysis_type = "Rainfall"
      [] OTHER -> FALSE

TsSupported(analysis_type) ==
    \/ TsContains(analysis_type, "Air Quality")
    \/ TsContains(analysis_type, "Vegetation") \/ TsContains(analysis_type, "Indices")
    \/ TsContains(analysis_type, "Temp")
    \/ TsContains(analysis_type, "Rainfall")

\* The month loop: monthly_data after months month..12, or "raise" as soon
\* as a remote call raises.  A row is <<month, has a non-null value>>.
RECURSIVE TsLoop(_, _, _)
TsLoop(month, tsenv, monthly_data) ==
    IF month > TsMonths THEN [raised |-> FALSE, rows |-> monthly_data]
    ELSE IF tsenv[month] \in {"raise", "raise_stats"}
         THEN [raised |-> TRUE, rows |-> monthly_data]
    ELSE TsLoop(month + 1, tsenv, Append(monthly_data, <<month, tsenv[month] = "value">>))

\* The remote calls of the month loop, in order: the size call of a month,
\* then its statistics call unless the collection is empty; the window of a
\* query is the month.  The loop ends at the first call that raises.
RECURSIVE TsIssue(_, _)
TsIssue(month, tsenv) ==
    IF month > TsMonths THEN <<>>
    ELSE IF tsenv[month] = "raise" THEN <<Query("size", month, TRUE)>>
    ELSE IF tsenv[month] = "empty"
         THEN <<Query("size", month, FALSE)>> \o TsIssue(month + 1, tsenv)
    ELSE IF tsenv[month] = "raise_stats"
         THEN <<Query("size", month, FALSE), Query("stats", month, TRUE)>>
    ELSE <<Query("size", month, FALSE), Query("stats", month, FALSE)>>
            \o TsIssue(month + 1, tsenv)

ts_queries(analysis_type, tsenv) ==
    IF ~TsSupported(analysis_type) THEN <<>> ELSE TsIssue(1, tsenv)

\* return None; `raised` says an exception left the routine
NoFig == [kind |-> "None", months |-> <<>>, raised |-> FALSE]

\* run_analysis without the try/except around its body
run_analysis_NoExcept(analysis_type, tsenv) ==
    IF ~TsSupported(analysis_type) THEN NoFig
    ELSE LET loop == TsLoop(1, tsenv, <<>>)
             df == SelectSeq(loop.rows, LAMBDA row : row[2])
         IN IF loop.raised THEN [kind |-> "None", months |-> <<>>, raised |-> TRUE]
            ELSE IF df # <<>>
                 THEN [kind |-> "fig", months |-> [i \in 1..Len(df) |-> month_names[df[i][1]]],
                       raised |-> FALSE]
                 ELSE NoFig

run_analysis(analysis_type, tsenv) ==
    IF ~TsSupported(analysis_type) THEN NoFig
    ELSE LET loop == TsLoop(1, tsenv, <<>>)
             df == SelectSeq(loop.rows, LAMBDA row : row[2])
         IN IF loop.raised THEN NoFig
            ELSE IF df # <<>>
                 THEN [kind |-> "fig", months |-> [i \in 1..Len(df) |-> month_names[df[i][1]]],
                       raised |-> FALSE]
                 ELSE NoFig

\* The analysis types a caller passes: the four the app maps its selectors
\* to and one the routine has no dataset for.
TsTypes == {"Rainfall", "Air Quality", "Temp", "Vegetation", "Elevation"}

\* ts_mapping.get(analysis_type) without the "Vegetation" default
ts_mapping_NoDefault(sel) ==
    CASE sel = SelRainfall -> "Rainfall"
      [] sel = SelAir -> "Air Quality"
      [] sel = SelLst -> "Temp"
      [] sel = SelIndices -> "Vegetation"
      [] OTHER -> "None"

\* ts_mapping.get(analysis_type, "Vegetation")
ts_mapping(sel) ==
    CASE sel = SelRainfall -> "Rainfall"
      [] sel = SelAir -> "Air Quality"
      [] sel = SelLst -> "Temp"
      [] sel = SelIndices -> "Vegetation"
      [] OTHER -> "Vegetation"

temp_path(city) == "/tmp/chart_" \o city \o ".png"

\* What time_series.run_analysis can return for a selector, over every
\* answer of the backend.
Figures == [sel \in Range(AnalysisTypes) |-> {run_analysis(ts_mapping(sel), tsenv) : tsenv \in TsEnvs}]

\* Display with the chart slot emptied when the option is off
Display_ClearsWhenOff(cache, city, sel, ts_on, fig, write_ok) ==
    IF cache.data_captured /\ ts_on
    THEN IF fig.kind = "fig"
         THEN IF write_ok
              THEN [chart_img |-> temp_path(city), ts_calls |-> <<ts_mapping(sel)>>, shown |-> <<>>]
              ELSE [chart_img |-> cache.chart_img, ts_calls |-> <<ts_mapping(sel)>>,
                    shown |-> <<"Note: Kaleido engine not detected. Trends will not appear in the PDF report.">>]
         ELSE [chart_img |-> cache.chart_img, ts_calls |-> <<ts_mapping(sel)>>, shown |-> <<>>]
    ELSE [chart_img |-> NoPath, ts_calls |-> <<>>, shown |-> <<>>]

\* The result-display section: the session's chart slot afterwards.  fig is
\* what run_analysis returns if it is called; write_ok: fig.write_image
\* succeeds.
Display(cache, city, sel, ts_on, fig, write_ok) ==
    IF cache.data_captured /\ ts_on
    THEN IF fig.kind = "fig"
         THEN IF write_ok
              THEN [chart_img |-> temp_path(city), ts_calls |-> <<ts_mapping(sel)>>, shown |-> <<>>]
              ELSE [chart_img |-> cache.chart_img, ts_calls |-> <<ts_mapping(sel)>>,
                    shown |-> <<"Note: Kaleido engine not detected. Trends will not appear in the PDF report.">>]
         ELSE [chart_img |-> cache.chart_img, ts_calls |-> <<ts_mapping(sel)>>, shown |-> <<>>]
    ELSE [chart_img |-> cache.chart_img, ts_calls |-> <<>>, shown |-> <<>>]

\* ------------------------------------------------- the report compiler
\* str.upper() on the strings the compiler upper-cases
Upper(str) ==
    CASE str = SelRainfall -> "PRECIPITATION & RAINFALL (NASA GPM)"
      [] str = SelDem -> "TERRAIN ANALYSIS (DEM / SLOPE / ASPECT)"
      [] str = SelFlood -> "FLOOD MAPPING & RISK (SAR)"
      [] str = SelIndices -> "SPECTRAL INDICES & ENVIRONMENTAL METRICS"
      [] str = SelAir -> "AIR QUALITY MONITORING (SENTINEL-5P)"
      [] str = SelLst -> "LAND SURFACE TEMPERATURE (LST)"
      [] str = SelWildfire -> "ACTIVE WILDFIRES (FIRMS)"
      [] str = SelLandCover -> "LAND COVER CLASSIFICATION"
      [] str = "Mean Surface Temp" -> "MEAN SURFACE TEMP"
      [] str = "Max Surface Temp" -> "MAX SURFACE TEMP"
      [] str = "Min Surface Temp" -> "MIN SURFACE TEMP"
      [] str = "Satellite Platform" -> "SATELLITE PLATFORM"
      [] str = "Spatial Resolution" -> "SPATIAL RESOLUTION"
      [] str = "Correction Method" -> "CORRECTION METHOD"
      [] str = "Module" -> "MODULE"
      [] str = "Mean Monthly Rainfall" -> "MEAN MONTHLY RAINFALL"
      [] str = "Max Monthly Rainfall" -> "MAX MONTHLY RAINFALL"
      [] str = "Data Source" -> "DATA SOURCE"
      [] str = "Status" -> "STATUS"
      [] str = "Message" -> "MESSAGE"
      [] str = "Mean Elevation" -> "MEAN ELEVATION"
      [] str = "Max Elevation" -> "MAX ELEVATION"
      [] str = "Min Elevation" -> "MIN ELEVATION"
      [] str = "Mean Slope" -> "MEAN SLOPE"
      [] str = "Max Slope" -> "MAX SLOPE"
      [] str = "DEM Source" -> "DEM SOURCE"
      [] str = "Pollutant" -> "POLLUTANT"
      [] str = "Mean Concentration" -> "MEAN CONCENTRATION"
      [] str = "Max Concentration" -> "MAX CONCENTRATION"
      [] str = "Resolution" -> "RESOLUTION"
      [] OTHER -> str

\* The keys the metrics table leaves out
SkippedKeys == {"Module", "Data Source", "Status"}

\* Cards with "Message" added to the keys left out
Cards_SkipsMessage(stats_data) ==
    LET kept == SelectSeq(stats_data.items,
                          LAMBDA item : item[1] \notin SkippedKeys \cup {"Message"})
    IN [i \in 1..Len(kept) |-> <<Upper(kept[i][1]), kept[i][2]>>]

\* The data cards: one <<KEY, value>> per item whose key is not left out
Cards(stats_data) ==
    LET kept == SelectSeq(stats_data.items, LAMBDA item : item[1] \notin SkippedKeys)
    IN [i \in 1..Len(kept) |-> <<Upper(kept[i][1]), kept[i][2]>>]

\* generate_pdf_report: stats_data.get(...) on None raises AttributeError
\* before anything is laid out; the chart page needs a path and
\* os.path.exists(chart_path) (path_exists).
generate_pdf_report(city, year, month, analysis, stats_data, chart_path, path_exists) ==
    IF stats_data.kind = "None"
    THEN [raised |-> TRUE, err |-> "'NoneType' object has no attribute 'get'", doc |-> <<>>]
    ELSE [raised |-> FALSE, err |-> "",
          doc |-> <<[
            title |-> Upper(analysis) \o " REPORT",
            subtitle |-> "Geospatial Study for " \o city \o " Governorate, Jordan",
            meta |-> <<
              <<"Study Area:", city \o ", Jordan", "Analysis Period:", month \o " " \o ToString(year)>>,
              <<"Platform:", "Google Earth Engine", "Coordinate System:", "WGS 84 / EPSG:4326">>,
              <<"Data Source:", DictGet(stats_data, "Data Source", "Satellite Constellation"),
                "Status:", "Verified">> >>,
            cards |-> IF stats_data.kind = "dict" THEN Cards(stats_data) ELSE <<>>,
            chart_page |-> (chart_path # NoPath /\ path_exists),
            chart |-> IF chart_path # NoPath /\ path_exists THEN chart_path ELSE NoPath
          ]>>]

file_name(city, year) == "GeoSense_Jordan_" \o city \o "_" \o ToString(year) \o ".pdf"

\* ---------------------------------------------------------------- state
VARIABLES
    data_captured, stats, chart_img,    \* st.session_state
    target_city, selected_year, selected_month_name, analysis_type, enable_ts,
    button,                             \* the button that triggered the pass
    pc,                                 \* where the script pass stands
    auth,                               \* what the credential exchange did
    period_empty,                       \* the handler met an empty collection
    called,                             \* handlers invoked in this pass
    ts_calls,                           \* time-series targets run in this pass
    roi_calls,                          \* region lookups in this pass
    area_name,                          \* the name the resolver was called with
    roi,                                \* the region the resolver returned
    sub_option,                         \* the sub-option a direct request asks for
    passed,                             \* the pollutant argument the routing passed
    queries,                            \* the remote queries a handler issued
    respelled,                          \* the governorate the dataset spells the sidebar's way
    ts_type,                            \* the analysis type of a direct time-series call
    ts_env,                             \* the backend's twelve answers to that call
    ts_result,                          \* <<what the call returned>>
    shown,                              \* app-level messages of this pass
    doc,                                \* <<document>> compiled in this pass
    download,                           \* file name offered for download
    file_exists,                        \* a file was at the chart path when the compiler looked
    written,                            \* session slots the run body assigned
    run_outcome,                        \* <<outcome>> of this pass's handler
    last_returned                       \* value of the latest handler that returned

session == <<data_captured, stats, chart_img>>
widgets == <<target_city, selected_year, selected_month_name, analysis_type, enable_ts, button>>
tsrun == <<ts_type, ts_env, ts_result>>
direct == <<sub_option, passed, queries, respelled, tsrun>>
observed == <<auth, period_empty, called, ts_calls, roi_calls, area_name, roi, shown, doc,
              download, file_exists, written, run_outcome, direct>>
vars == <<session, widgets, pc, observed, last_returned>>

Cache == [data_captured |-> data_captured, stats |-> stats, chart_img |-> chart_img]

\* Between two passes the script's locals are gone: only the session stays.
NoPass ==
    /\ target_city = jordan_governorates[1]
    /\ selected_year = DefaultYear
    /\ selected_month_name = month_names[1]
    /\ analysis_type = AnalysisTypes[1]
    /\ enable_ts = FALSE
    /\ button = "none"
    /\ auth = ""
    /\ period_empty = FALSE
    /\ called = <<>>
    /\ ts_calls = <<>>
    /\ roi_calls = 0
    /\ area_name = ""
    /\ roi = NoRoi
    /\ shown = <<>>
    /\ doc = <<>>
    /\ download = ""
    /\ file_exists = FALSE
    /\ written = {}
    /\ run_outcome = <<>>
    /\ sub_option = ""
    /\ passed = <<>>
    /\ queries = <<>>
    /\ respelled = ""
    /\ ts_type = ""
    /\ ts_env = <<>>
    /\ ts_result = <<>>

Init ==
    /\ data_captured = FALSE
    /\ stats = EmptyDict
    /\ chart_img = NoPath
    /\ pc = "ready"
    /\ NoPass
    /\ last_returned = EmptyDict

\* A user event reruns the script: the widgets hold what the user set, at
\* most one button is down.
StartPass ==
    /\ pc = "ready"
    /\ \E city \in Cities, period \in Periods, sel \in Range(AnalysisTypes),
          ts \in BOOLEAN, b \in {"none", "run", "report"} :
          /\ target_city' = city
          /\ selected_year' = period[1]
          /\ selected_month_name' = period[2]
          /\ analysis_type' = sel
          /\ enable_ts' = ts
          /\ button' = b
    /\ pc' = "auth"
    /\ UNCHANGED <<session, observed, last_returned>>

\* if authenticate_gee(): ... else: st.error(...)
Authenticate ==
    /\ pc = "auth"
    /\ \E authenv \in AuthEnvs :
          LET r == authenticate_gee(authenv)
          IN /\ auth' = authenv
             /\ IF r.raised
                THEN /\ pc' = "crashed"
                     /\ shown' = shown
                ELSE IF r.ok
                THEN /\ pc' = "roi"
                     /\ shown' = shown \o r.shown
                ELSE /\ pc' = "blocked"
                     /\ shown' = shown \o r.shown
                           \o <<"Earth Engine Authentication Error. Please check your credentials.">>
    /\ UNCHANGED <<session, widgets, period_empty, called, ts_calls, roi_calls, area_name, roi,
                   doc, download, file_exists, written, run_outcome, last_returned, direct>>

\* roi = get_country_roi(target_city); nothing around the call catches
ResolveRoi ==
    /\ pc = "roi"
    /\ \E roienv \in RoiEnvs :
          LET r == get_country_roi(target_city, roienv)
          IN /\ area_name' = target_city
             /\ roi' = r
             /\ pc' = IF r.raised THEN "crashed" ELSE "run"
    /\ roi_calls' = roi_calls + 1
    /\ UNCHANGED <<session, widgets, auth, period_empty, called, ts_calls, shown, doc,
                   download, file_exists, written, run_outcome, last_returned, direct>>

\* if st.sidebar.button("Run Scientific Analysis"): the button is down
RunClicked ==
    /\ pc = "run"
    /\ button = "run"
    /\ \E routed \in Routed[analysis_type] :
          LET r == RunAnalysis(Cache, target_city, routed.route)
          IN /\ period_empty' = routed.empty
             /\ stats' = r.stats
             /\ data_captured' = r.data_captured
             /\ chart_img' = r.chart_img
             /\ written' = r.written
             /\ called' = called \o r.called
             /\ run_outcome' = <<r.outcome>>
             /\ shown' = shown \o r.shown
             /\ last_returned' = IF r.outcome.raised THEN last_returned ELSE r.outcome.value
             /\ pc' = IF r.propagated THEN "crashed" ELSE "display"
    /\ UNCHANGED <<widgets, auth, ts_calls, roi_calls, area_name, roi, doc, download, file_exists, direct>>

\* the button is up: the run body is skipped
RunSkipped ==
    /\ pc = "run"
    /\ button # "run"
    /\ pc' = "display"
    /\ UNCHANGED <<session, widgets, observed, last_returned>>

\* if st.session_state.data_captured: if enable_ts: ...
DisplayStep ==
    /\ pc = "display"
    /\ \E fig \in Figures[analysis_type], write_ok \in BOOLEAN :
          LET d == Display(Cache, target_city, analysis_type, enable_ts, fig, write_ok)
          IN /\ chart_img' = d.chart_img
             /\ ts_calls' = ts_calls \o d.ts_calls
             /\ shown' = shown \o d.shown
    /\ pc' = "report"
    /\ UNCHANGED <<data_captured, stats, widgets, auth, period_empty, called, roi_calls,
                   area_name, roi, doc, download, file_exists, written, run_outcome, last_returned, direct>>

\* ReportClicked without the data_captured test
ReportClicked_NoGuard ==
    /\ pc = "report"
    /\ button = "report"
    /\ \E path_exists \in BOOLEAN :
          LET r == generate_pdf_report(target_city, selected_year, selected_month_name,
                                       analysis_type, stats, chart_img, path_exists)
          IN IF r.raised
             THEN /\ pc' = "crashed"
                  /\ UNCHANGED <<doc, download, file_exists, shown>>
             ELSE /\ pc' = "done"
                  /\ doc' = r.doc
                  /\ download' = file_name(target_city, selected_year)
                  /\ file_exists' = path_exists
                  /\ shown' = shown
    /\ UNCHANGED <<session, widgets, auth, period_empty, called, ts_calls, roi_calls,
                   area_name, roi, written, run_outcome, last_returned, direct>>

\* if st.sidebar.button("Generate Academic PDF Report"): the button is down
ReportClicked ==
    /\ pc = "report"
    /\ button = "report"
    /\ IF data_captured
       THEN \E path_exists \in BOOLEAN :
              LET r == generate_pdf_report(target_city, selected_year, selected_month_name,
                                           analysis_type, stats, chart_img, path_exists)
              IN IF r.raised
                 THEN /\ pc' = "crashed"
                      /\ UNCHANGED <<doc, download, file_exists, shown>>
                 ELSE /\ pc' = "done"
                      /\ doc' = r.doc
                      /\ download' = file_name(target_city, selected_year)
                      /\ file_exists' = path_exists
                      /\ shown' = shown
       ELSE /\ pc' = "done"
            /\ shown' = shown \o <<"No data processed. Please run an analysis module first.">>
            /\ UNCHANGED <<doc, download, file_exists>>
    /\ UNCHANGED <<session, widgets, auth, period_empty, called, ts_calls, roi_calls,
                   area_name, roi, written, run_outcome, last_returned, direct>>

\* the button is up: the pass ends
ReportSkipped ==
    /\ pc = "report"
    /\ button # "report"
    /\ pc' = "done"
    /\ UNCHANGED <<session, widgets, observed, last_returned>>

\* The script run is over (to its end, on an uncaught exception, or behind
\* the failed authentication): its locals and its output go, the session
\* state stays.
EndPass ==
    /\ pc \in {"done", "crashed", "blocked"}
    /\ pc' = "ready"
    /\ target_city' = jordan_governorates[1]
    /\ selected_year' = DefaultYear
    /\ selected_month_name' = month_names[1]
    /\ analysis_type' = AnalysisTypes[1]
    /\ enable_ts' = FALSE
    /\ button' = "none"
    /\ auth' = ""
    /\ period_empty' = FALSE
    /\ called' = <<>>
    /\ ts_calls' = <<>>
    /\ roi_calls' = 0
    /\ area_name' = ""
    /\ roi' = NoRoi
    /\ shown' = <<>>
    /\ doc' = <<>>
    /\ download' = ""
    /\ file_exists' = FALSE
    /\ written' = {}
    /\ run_outcome' = <<>>
    /\ UNCHANGED <<session, last_returned, direct>>

Next ==
    \/ StartPass
    \/ Authenticate
    \/ ResolveRoi
    \/ RunClicked
    \/ RunSkipped
    \/ DisplayStep
    \/ ReportClicked
    \/ ReportSkipped
    \/ EndPass

Spec == Init /\ [][Next]_vars

\* ------------------------------------------- the resolver called directly
\* A caller other than the dashboard calls get_country_roi, up to MaxCalls
\* times, with any name of AreaNames; the session plays no part.
RoiInit ==
    /\ data_captured = FALSE
    /\ stats = EmptyDict
    /\ chart_img = NoPath
    /\ last_returned = EmptyDict
    /\ target_city = jordan_governorates[1]
    /\ selected_year = DefaultYear
    /\ selected_month_name = month_names[1]
    /\ analysis_type = AnalysisTypes[1]
    /\ enable_ts = FALSE
    /\ button = "none"
    /\ auth = ""
    /\ period_empty = FALSE
    /\ called = <<>>
    /\ ts_calls = <<>>
    /\ shown = <<>>
    /\ doc = <<>>
    /\ download = ""
    /\ file_exists = FALSE
    /\ written = {}
    /\ run_outcome = <<>>
    /\ roi_calls = 0
    /\ roi = NoRoi
    /\ sub_option = ""
    /\ passed = <<>>
    /\ queries = <<>>
    /\ respelled \in {""} \cup Respelled
    /\ ts_type = ""
    /\ ts_env = <<>>
    /\ ts_result = <<>>
    /\ area_name \in AreaNames
    /\ pc = "call"

RoiCall ==
    /\ pc = "call"
    /\ \E roienv \in RoiEnvs :
          /\ roienv.alt = respelled
          /\ roi' = get_country_roi(area_name, roienv)
    /\ roi_calls' = roi_calls + 1
    /\ pc' = "returned"
    /\ UNCHANGED <<session, widgets, auth, period_empty, called, ts_calls, area_name, shown, doc,
                   download, file_exists, written, run_outcome, last_returned, direct>>

RoiNextCall ==
    /\ pc = "returned"
    /\ roi_calls < MaxCalls
    /\ \E n \in AreaNames : area_name' = n
    /\ pc' = "call"
    /\ UNCHANGED <<session, widgets, auth, period_empty, called, ts_calls, roi_calls, roi, shown,
                   doc, download, file_exists, written, run_outcome, last_returned, direct>>

RoiNext == RoiCall \/ RoiNextCall

RoiSpec == RoiInit /\ [][RoiNext]_vars

\* ------------------------------------------- one request, seen from outside
\* A request names a module and, for air quality, a pollutant; the routing
\* chain serves it against any answers of the backend, one request after
\* the other.
SubOptions(sel) == IF sel = SelAir THEN Range(PollutantKeys) ELSE {""}

HandlerInit ==
    /\ data_captured = FALSE
    /\ stats = EmptyDict
    /\ chart_img = NoPath
    /\ last_returned = EmptyDict
    /\ target_city = jordan_governorates[1]
    /\ selected_year = DefaultYear
    /\ selected_month_name = month_names[1]
    /\ enable_ts = FALSE
    /\ button = "run"
    /\ auth = ""
    /\ period_empty = FALSE
    /\ called = <<>>
    /\ ts_calls = <<>>
    /\ shown = <<>>
    /\ doc = <<>>
    /\ download = ""
    /\ file_exists = FALSE
    /\ written = {}
    /\ run_outcome = <<>>
    /\ roi_calls = 0
    /\ roi = NoRoi
    /\ area_name = ""
    /\ passed = <<>>
    /\ queries = <<>>
    /\ respelled = ""
    /\ ts_type = ""
    /\ ts_env = <<>>
    /\ ts_result = <<>>
    /\ analysis_type \in Range(AnalysisTypes)
    /\ sub_option \in SubOptions(analysis_type)
    /\ pc = "request"

HandlerCall ==
    /\ pc = "request"
    /\ \E env \in EnvsFor(analysis_type) :
          LET r == Route(analysis_type, env)
          IN /\ called' = r.called
             /\ passed' = r.passed
             /\ run_outcome' = <<r.outcome>>
             /\ period_empty' = EmptyPeriod(env)
             /\ queries' = Queries(analysis_type, env)
    /\ pc' = "answered"
    /\ UNCHANGED <<session, target_city, selected_year, selected_month_name, analysis_type,
                   enable_ts, button, auth, ts_calls, roi_calls, area_name, roi, shown, doc,
                   download, file_exists, written, last_returned, sub_option, respelled, tsrun>>

HandlerNextRequest ==
    /\ pc = "answered"
    /\ \E sel \in Range(AnalysisTypes) :
          /\ analysis_type' = sel
          /\ \E opt \in SubOptions(sel) : sub_option' = opt
    /\ pc' = "request"
    /\ called' = <<>>
    /\ passed' = <<>>
    /\ run_outcome' = <<>>
    /\ period_empty' = FALSE
    /\ queries' = <<>>
    /\ UNCHANGED <<session, target_city, selected_year, selected_month_name, enable_ts, button,
                   auth, ts_calls, roi_calls, area_name, roi, shown, doc, download, file_exists, written,
                   last_returned, respelled, tsrun>>

HandlerNext == HandlerCall \/ HandlerNextRequest

HandlerSpec == HandlerInit /\ [][HandlerNext]_vars

\* ------------------------------------- time_series.run_analysis, called
\* One call after the other, each for any analysis type and against any
\* answers of the backend.
TsInit ==
    /\ data_captured = FALSE
    /\ stats = EmptyDict
    /\ chart_img = NoPath
    /\ last_returned = EmptyDict
    /\ target_city = jordan_governorates[1]
    /\ selected_year = DefaultYear
    /\ selected_month_name = month_names[1]
    /\ analysis_type = AnalysisTypes[1]
    /\ enable_ts = TRUE
    /\ button = "none"
    /\ auth = ""
    /\ period_empty = FALSE
    /\ called = <<>>
    /\ ts_calls = <<>>
    /\ shown = <<>>
    /\ doc = <<>>
    /\ download = ""
    /\ file_exists = FALSE
    /\ written = {}
    /\ run_outcome = <<>>
    /\ roi_calls = 0
    /\ roi = NoRoi
    /\ area_name = ""
    /\ sub_option = ""
    /\ passed = <<>>
    /\ queries = <<>>
    /\ respelled = ""
    /\ ts_type \in TsTypes
    /\ ts_env = <<>>
    /\ ts_result = <<>>
    /\ pc = "ts_call"

TsCall ==
    /\ pc = "ts_call"
    /\ \E tsenv \in TsEnvs :
          /\ ts_env' = tsenv
          /\ queries' = ts_queries(ts_type, tsenv)
          /\ ts_result' = <<run_analysis(ts_type, tsenv)>>
    /\ pc' = "ts_returned"
    /\ UNCHANGED <<session, widgets, auth, period_empty, called, ts_calls, roi_calls, area_name,
                   roi, shown, doc, download, file_exists, written, run_outcome, last_returned,
                   sub_option, passed, respelled, ts_type>>

TsNextCall ==
    /\ pc = "ts_returned"
    /\ \E t \in TsTypes : ts_type' = t
    /\ ts_env' = <<>>
    /\ queries' = <<>>
    /\ ts_result' = <<>>
    /\ pc' = "ts_call"
    /\ UNCHANGED <<session, widgets, auth, period_empty, called, ts_calls, roi_calls, area_name,
                   roi, shown, doc, download, file_exists, written, run_outcome, last_returned,
                   sub_option, passed, respelled>>

TsNext == TsCall \/ TsNextCall

TsSpec == TsInit /\ [][TsNext]_vars

TypeOK ==
    /\ data_captured \in BOOLEAN
    /\ stats.kind \in {"None", "dict"}
    /\ pc \in {"ready", "auth", "roi", "run", "display", "report", "done", "crashed", "blocked",
              "call", "returned", "request", "answered", "ts_call", "ts_returned"}

\* ---------------------------------------------------------------- claims
\* The run body has executed in the current pass.
RunDone == run_outcome # <<>>
RunRaised == RunDone /\ run_outcome[1].raised
RunReturned == RunDone /\ ~run_outcome[1].raised

\* The handler that belongs to each selector of the sidebar.
SelectorHandler(sel) ==
    CASE sel = "Precipitation & Rainfall (NASA GPM)" -> "rainfall"
      [] sel = "Terrain Analysis (DEM / Slope / Aspect)" -> "dem_analysis"
      [] sel = "Flood Mapping & Risk (SAR)" -> "flood_mapping"
      [] sel = "Spectral Indices & Environmental Metrics" -> "rs_indices"
      [] sel = "Air Quality Monitoring (Sentinel-5P)" -> "air_quality"
      [] sel = "Land Surface Temperature (LST)" -> "lst"
      [] sel = "Active Wildfires (FIRMS)" -> "wildfire"
      [] sel = "Land Cover Classification" -> "land_cover"

\* C1: in a pass no more than one handler is invoked, and once the run body
\* has executed exactly one was invoked: the one that belongs to the selector,
\* whether it returned or raised.
C1_OneHandlerPerRun ==
    /\ Len(called) <= 1
    /\ RunDone => called = <<SelectorHandler(analysis_type)>>
    /\ (button # "run" \/ pc \in {"auth", "roi", "run", "blocked"}) => called = <<>>

C1_Witness ==
    /\ pc = "display"
    /\ RunRaised
    /\ analysis_type = SelWildfire
    /\ called = <<"wildfire">>

\* C2: the cached result is the value returned by the latest run whose
\* handler returned without raising, and the initial empty mapping when there
\* was none.
C2_StatsIsLastReturned ==
    /\ stats = last_returned
    /\ ~data_captured => stats = EmptyDict

C2_Witness ==
    /\ pc = "report"
    /\ RunRaised
    /\ data_captured
    /\ stats.kind = "dict"
    /\ Len(stats.items) = 6

\* C3 as stated: every run action assigns the cached result and the chart
\* reference, whatever the handler did.
C3_EveryRunOverwrites ==
    RunDone => {"stats", "chart_img"} \subseteq written

\* C3 amended: every run action resets the chart reference; it assigns the
\* cached result (the handler's value) exactly when the handler returned.
C3_RunOverwrites ==
    RunDone =>
        /\ "chart_img" \in written
        /\ pc = "display" => chart_img = NoPath
        /\ "stats" \in written <=> ~run_outcome[1].raised
        /\ ~run_outcome[1].raised => stats = run_outcome[1].value /\ data_captured

C3_Witness ==
    /\ pc = "display"
    /\ RunRaised
    /\ stats.kind = "None"
    /\ data_captured
    /\ written = {"chart_img"}

\* A mapping that carries a status and no metric.
StatusOnly(v) == v.kind = "dict" /\ "Status" \in DictKeys(v) /\ DictKeys(v) \subseteq {"Status", "Message"}

\* C4 as stated: a handler that meets an empty collection for the period does
\* not raise; it returns a status-only mapping or the no-data signal (None).
C4_EmptyNeverRaises ==
    (RunDone /\ period_empty) =>
        /\ ~run_outcome[1].raised
        /\ StatusOnly(run_outcome[1].value) \/ run_outcome[1].value = PyNone

\* C5 as stated: a handler that meets an empty collection for the period
\* returns a mapping that holds a Status entry.
C5_EmptySignalledByStatus ==
    (RunDone /\ period_empty) =>
        /\ ~run_outcome[1].raised
        /\ run_outcome[1].value.kind = "dict"
        /\ "Status" \in DictKeys(run_outcome[1].value)

\* C6 as stated: once a run has completed, the cache holds a mapping, never
\* None.
C6_CacheHoldsMapping ==
    data_captured => stats.kind = "dict"

\* C7 as stated: with a run recorded, the report action produces a document.
C7_ReportNeverFails ==
    (button = "report" /\ data_captured /\ pc \in {"done", "crashed"}) => doc # <<>>

\* Every text the document shows.
DocTexts(d) ==
    {d.title, d.subtitle}
    \cup {d.meta[i][j] : i \in 1..Len(d.meta), j \in 1..4}
    \cup {d.cards[i][j] : i \in 1..Len(d.cards), j \in 1..2}

\* C8 as stated: every key of the cached mapping (as a label, upper-cased or
\* not) and its value appear in the document.
C8_DocHasEveryPair ==
    doc # <<>> =>
        \A i \in 1..Len(stats.items) :
            /\ {stats.items[i][1], stats.items[i][1] \o ":", Upper(stats.items[i][1])}
                   \cap DocTexts(doc[1]) # {}
            /\ stats.items[i][2] \in DocTexts(doc[1])

\* C8 amended: every item whose key is not Module, Data Source or Status has
\* its card, the upper-cased key with the value, in the mapping's order; the
\* Data Source value stands in the metadata table; no card shows a key that
\* is left out.
C8_DocHasEveryMetric ==
    doc # <<>> =>
        LET d == doc[1]
            metrics == SelectSeq(stats.items,
                                 LAMBDA item : item[1] \notin {"Module", "Data Source", "Status"})
        IN /\ Len(d.cards) = Len(metrics)
           /\ \A i \in 1..Len(metrics) :
                 d.cards[i][2] = metrics[i][2] /\ d.cards[i][1] = Upper(metrics[i][1])
           /\ \A i \in 1..Len(stats.items) :
                 stats.items[i][1] = "Data Source" => d.meta[3][2] = stats.items[i][2]

C8_Witness ==
    /\ doc # <<>>
    /\ DictKeys(stats) = {"Status", "Message"}
    /\ doc[1].cards = << <<"MESSAGE", ErrRemote>> >>

\* C9: a handler's exception does not leave the run body: the script goes on
\* to the display and report sections, the error string is shown, and the
\* time-series routine still runs when the session and the option ask for it.
C9_HandlerErrorCaught ==
    RunRaised =>
        /\ pc \in {"display", "report", "done"}
        /\ ("Execution Error: " \o run_outcome[1].err) \in Range(shown)
        /\ (pc \in {"report", "done"} /\ data_captured /\ enable_ts) => Len(ts_calls) = 1

C9_Witness ==
    /\ pc = "done"
    /\ RunRaised
    /\ run_outcome[1].err = ErrFormatNone
    /\ Len(ts_calls) = 1

\* C10: when the credential exchange fails the pass is blocked without an
\* exception: no region lookup, no handler, no time-series routine and no
\* report in it, only error messages.
C10_AuthFailureBlocks ==
    (auth \notin {"", "ok"}) =>
        /\ pc = "blocked"
        /\ roi_calls = 0
        /\ called = <<>>
        /\ ts_calls = <<>>
        /\ doc = <<>>
        /\ run_outcome = <<>>
        /\ Len(shown) = 2
        /\ shown[2] = "Earth Engine Authentication Error. Please check your credentials."

C10_Witness ==
    /\ pc = "blocked"
    /\ auth = "init_fails"
    /\ button = "run"
    /\ data_captured

\* The resolver has returned to its caller.
RoiReturned == pc = "returned" \/ (pc \in {"run", "display", "report", "done"} /\ roi_calls > 0)

\* The boundary dataset has no feature for the name: not under the mapped
\* name, not under a name that contains it.
TotalLookupFailure(n) ==
    /\ name_mapping(n) \notin Dataset(respelled)
    /\ \A g \in Dataset(respelled) : ~StrIn(n, g)

\* C11 as stated: for each of the twelve governorate names the resolver
\* returns a non-empty region, the name being a key of the mapping and the
\* lookup made by the mapped name; for any other name it returns a region
\* too, never an empty one.
C11_ResolvesEveryName ==
    /\ Range(jordan_governorates) = name_mapping_keys
    /\ RoiReturned =>
          /\ ~roi.raised
          /\ ~roi.empty
          /\ (area_name \in Range(jordan_governorates) /\ roi.source = "GAUL") =>
                (roi.filter = "eq" /\ roi.name = name_mapping(area_name))

\* C12 as stated: when neither the exact nor the substring match finds a
\* feature, the resolver returns the country polygon, not an empty region.
C12_TotalFailureGivesCountry ==
    (RoiReturned /\ TotalLookupFailure(area_name)) =>
        /\ roi.source = "LSIB"
        /\ ~roi.empty

\* C13: the resolver never raises to its caller: whatever the name and
\* whether or not the remote lookup fails, the caller gets a region value,
\* the country polygon when the lookup failed.
C13_ResolverNeverRaises ==
    /\ pc # "crashed" \/ roi_calls = 0 \/ ~roi.raised
    /\ RoiReturned =>
          /\ ~roi.raised
          /\ roi.source \in {"GAUL", "LSIB"}
          /\ roi.source = "LSIB" => (roi.filter = "country_na" /\ roi.name = "Jordan" /\ ~roi.empty)

C13_Witness ==
    /\ pc = "returned"
    /\ area_name = "Atlantis"
    /\ roi.source = "LSIB"
    /\ roi_calls = 2

\* C14 as stated: in a pass triggered by the report button no analysis
\* handler and no time-series routine is invoked.
C14_ReportRecomputesNothing ==
    button = "report" => (called = <<>> /\ ts_calls = <<>>)

\* A request has been served by the routing chain.
Answered == pc = "answered"

\* The handlers that swap an empty period collection for a wider one.
Widening == {SelIndices, SelLandCover}

C16_CacheNeverCleared ==
    [][(data_captured => data_captured') /\ (data_captured' => stats' # EmptyDict)]_vars

C16_Witness ==
    /\ pc = "done"
    /\ button = "run"
    /\ RunRaised
    /\ data_captured
    /\ stats.kind = "None"
    /\ ts_calls # <<>>

\* Session caches a run can start from.
OtherCaches ==
    {[data_captured |-> FALSE, stats |-> EmptyDict, chart_img |-> NoPath],
     [data_captured |-> TRUE, stats |-> PyNone, chart_img |-> NoPath],
     [data_captured |-> TRUE, stats |-> PyDict(<< <<"Status", "No Data Found">> >>),
      chart_img |-> temp_path(jordan_governorates[1])]}

C18_ChartPageIffFile ==
    (button = "report" /\ data_captured /\ pc \in {"done", "crashed"}) =>
        /\ doc # <<>>
        /\ doc[1].chart_page <=> (chart_img # NoPath /\ file_exists)

\* The step is the run body with a handler that raises.
RaisingRun == pc = "run" /\ run_outcome' # <<>> /\ run_outcome'[1].raised

\* C19 as stated: a run whose handler raises leaves stats, data_captured and
\* chart_img as they were.
C19_RaiseLeavesCache ==
    [][RaisingRun => UNCHANGED <<stats, data_captured, chart_img>>]_vars

\* C19 amended: a run whose handler raises leaves stats and data_captured as
\* they were and resets chart_img to None.
C19_RaiseLeavesResult ==
    [][RaisingRun => (UNCHANGED <<stats, data_captured>> /\ chart_img' = NoPath)]_vars

C19_Witness ==
    /\ pc = "display"
    /\ RunRaised
    /\ analysis_type = SelLst
    /\ data_captured
    /\ stats.kind = "dict"
    /\ chart_img = NoPath

\* C20 as stated: the routing chain passes the pollutant the request asks
\* for, and the handler then reports that pollutant's dataset.
C20_ChosenPollutantPassed ==
    (Answered /\ analysis_type = SelAir) =>
        /\ passed = <<sub_option>>
        /\ (~run_outcome[1].raised /\ "Pollutant" \in DictKeys(run_outcome[1].value)) =>
              DictGet(run_outcome[1].value, "Pollutant", "") = pollutant_key(sub_option)

\* C21: the resolver hands back the substring filter exactly when its remote
\* call answered and the exact filter on the mapped name matched no feature;
\* the substring filter is on the caller's name, the exact one on the mapped
\* name.
C21_SubstringAfterExactFails ==
    pc = "returned" =>
        /\ roi.filter = "stringContains"
              <=> (roi.source = "GAUL" /\ name_mapping(area_name) \notin Dataset(respelled))
        /\ roi.filter = "stringContains" => roi.name = area_name
        /\ roi.filter = "eq" => roi.name = name_mapping(area_name)

C21_Witness ==
    /\ pc = "returned"
    /\ area_name = "Zarqa"
    /\ respelled = "Zarqa"
    /\ roi.filter = "stringContains"
    /\ roi.name = "Zarqa"
    /\ ~roi.empty

NoDataMessage == "No data processed. Please run an analysis module first."

\* C22: a document is compiled only with data_captured true; while no run
\* has completed, a report action shows the 'no data processed' error, offers
\* no document, and the cache stays as initialised; no report action changes
\* the session cache.
C22_ReportNeedsCapturedData ==
    /\ [](doc # <<>> => data_captured)
    /\ []((button = "report" /\ pc = "done" /\ ~data_captured) =>
            /\ doc = <<>>
            /\ download = ""
            /\ NoDataMessage \in Range(shown)
            /\ stats = EmptyDict
            /\ chart_img = NoPath)
    /\ [][(pc = "report" /\ button = "report") => UNCHANGED session]_vars

C22_Witness ==
    /\ pc = "done"
    /\ button = "report"
    /\ ~data_captured
    /\ shown = <<NoDataMessage>>
    /\ enable_ts

\* C23  A generated report names the place, period and module of the run
\* that produced the cached metrics.  Each dict-returning handler writes a
\* key no other handler writes, so the cached mapping tells which module
\* computed it; the report must carry that module's name in its title.
ProducedBy(stats_data) ==
    {sel \in Range(AnalysisTypes) :
        \/ sel = SelLst /\ "Mean Surface Temp" \in DictKeys(stats_data)
        \/ sel = SelRainfall /\ "Mean Monthly Rainfall" \in DictKeys(stats_data)
        \/ sel = SelDem /\ "Mean Elevation" \in DictKeys(stats_data)
        \/ sel = SelAir /\ "Pollutant" \in DictKeys(stats_data)}

C23_ReportNamesTheRun ==
    (doc # <<>> /\ stats.kind = "dict") =>
        \A sel \in ProducedBy(stats) : doc[1].title = Upper(sel) \o " REPORT"


\* C24 as stated: a report generated while the time-series option is
\* disabled contains no chart.
C24_NoChartWhenDisabled ==
    (doc # <<>> /\ ~enable_ts) => ~doc[1].chart_page

\* C24  The chart reference changes in two places only: the run body empties
\* it, and the display section sets it to the path it saved the figure at,
\* with data captured and the option enabled.  A pass with the option
\* disabled leaves it as it was, so a reference saved in an earlier pass
\* stays until the next run; a document has a chart page only with a
\* reference in the session and a file at it.
C24_ChartKeptUntilNextRun ==
    /\ [][chart_img' # chart_img =>
            \/ pc = "run" /\ button = "run" /\ chart_img' = NoPath
            \/ /\ pc = "display" /\ data_captured /\ enable_ts
               /\ chart_img' = temp_path(target_city)]_vars
    /\ [](doc # <<>> /\ doc[1].chart_page => chart_img # NoPath /\ file_exists)

C24_Witness ==
    /\ pc = "done" /\ button = "report" /\ ~enable_ts
    /\ doc # <<>> /\ doc[1].chart_page
    /\ ts_calls = <<>>


\* C25  A run action shows the success message and assigns data_captured
\* (to true) exactly when the handler returned without raising, whatever it
\* returned: nothing, a "No Data Found" mapping or an "Error" mapping too.
SuccessMessage == "Computation for " \o target_city \o " completed successfully."

C25_SuccessIffReturned ==
    RunDone =>
        /\ SuccessMessage \in Range(shown) <=> RunReturned
        /\ "data_captured" \in written <=> RunReturned
        /\ RunReturned => data_captured /\ stats = run_outcome[1].value
        /\ RunRaised => ("Execution Error: " \o run_outcome[1].err) \in Range(shown)

C25_Witness ==
    /\ RunReturned
    /\ DictGet(stats, "Status", "") = "Error"
    /\ data_captured
    /\ SuccessMessage \in Range(shown)

\* the same for a handler that returned nothing and for "No Data Found"
C25_WitnessNone ==
    RunReturned /\ stats = PyNone /\ data_captured /\ SuccessMessage \in Range(shown)

C25_WitnessNoData ==
    /\ RunReturned /\ DictGet(stats, "Status", "") = "No Data Found"
    /\ data_captured /\ SuccessMessage \in Range(shown)


\* C26  Whatever the module selector, the target the app passes to
\* time_series.run_analysis is Rainfall, Air Quality, Temp or Vegetation
\* (Vegetation for the four selectors the mapping has no entry for), a
\* target the routine supports; and the routine is called in a pass only
\* with data_captured true and the time-series option enabled.
TsTargets == {"Rainfall", "Air Quality", "Temp", "Vegetation"}
Unmapped == {SelDem, SelFlood, SelWildfire, SelLandCover}

C26_TargetAlwaysSupported ==
    /\ \A i \in 1..Len(ts_calls) :
          /\ ts_calls[i] \in TsTargets
          /\ TsSupported(ts_calls[i])
          /\ analysis_type \in Unmapped => ts_calls[i] = "Vegetation"
          /\ analysis_type = SelRainfall => ts_calls[i] = "Rainfall"
          /\ analysis_type = SelAir => ts_calls[i] = "Air Quality"
          /\ analysis_type = SelLst => ts_calls[i] = "Temp"
          /\ analysis_type = SelIndices => ts_calls[i] = "Vegetation"
    /\ ts_calls # <<>> => data_captured /\ enable_ts
    /\ Len(ts_calls) <= 1

C26_Witness ==
    /\ pc = "report"
    /\ analysis_type = SelWildfire
    /\ ts_calls = <<"Vegetation">>
    /\ data_captured /\ enable_ts


\* C27  time_series.run_analysis never raises and ends after at most two
\* remote calls a month.  For a supported analysis type it asks for the size
\* of the months 1, 2, ... in this order, once each and all twelve unless a
\* call raises; a statistics call follows the size call of a month exactly
\* when that month's collection is not empty; it returns a figure exactly
\* when no call raised and some month has a non-null value, and None
\* otherwise.  For an unsupported type it returns None without a call.
TsRaises == \E m \in 1..TsMonths : ts_env[m] \in {"raise", "raise_stats"}
TsValued == {m \in 1..TsMonths : ts_env[m] = "value"}
SizeCalls == SelectSeq(queries, LAMBDA q : q.call = "size")

C27_TimeSeriesLoop ==
    pc = "ts_returned" =>
        /\ ~ts_result[1].raised
        /\ ts_result[1].kind \in {"fig", "None"}
        /\ Len(queries) <= 2 * TsMonths
        /\ ~TsSupported(ts_type) => queries = <<>> /\ ts_result[1].kind = "None"
        /\ TsSupported(ts_type) =>
              /\ \A i \in 1..Len(SizeCalls) : SizeCalls[i].window = i
              /\ ~TsRaises => Len(SizeCalls) = TsMonths
              /\ \A i \in 1..Len(queries) :
                    /\ queries[i].failed => i = Len(queries)
                    /\ queries[i].call = "stats" =>
                          /\ i > 1
                          /\ queries[i - 1] = Query("size", queries[i].window, FALSE)
                          /\ ts_env[queries[i].window] # "empty"
                    /\ (queries[i].call = "size" /\ ~queries[i].failed
                           /\ ts_env[queries[i].window] # "empty") =>
                          /\ i < Len(queries)
                          /\ queries[i + 1].call = "stats"
                          /\ queries[i + 1].window = queries[i].window
              /\ ts_result[1].kind = "fig" <=> (~TsRaises /\ TsValued # {})
              /\ ts_result[1].kind = "fig" =>
                    Range(ts_result[1].months) = {month_names[m] : m \in TsValued}

\* eleven months with a value and an empty May: 23 calls and a figure
C27_Witness ==
    /\ pc = "ts_returned"
    /\ ts_type = "Temp"
    /\ ts_env[5] = "empty"
    /\ Len(queries) = 2 * TsMonths - 1
    /\ ts_result[1].kind = "fig"
    /\ Len(ts_result[1].months) = TsMonths - 1

\* twelve empty months; a call that raises in a month after one with a value
C27_WitnessAllEmpty ==
    /\ pc = "ts_returned" /\ ts_type = "Rainfall"
    /\ \A m \in 1..TsMonths : ts_env[m] = "empty"
    /\ Len(queries) = TsMonths /\ ts_result[1].kind = "None"

C27_WitnessRaise ==
    /\ pc = "ts_returned" /\ ts_type = "Vegetation"
    /\ ts_env[1] = "value" /\ ts_env[3] = "raise_stats"
    /\ Len(queries) = 6 /\ ts_result[1].kind = "None"


\* C28 as stated: with a non-empty collection for the period and no remote
\* call failing, lst.run returns its six-key mapping whatever the region
\* statistics are, a null mean, max or min included; it does not raise.
C28_LstSurvivesNullStats ==
    (/\ Answered
     /\ analysis_type = SelLst
     /\ ~period_empty
     /\ \A i \in 1..Len(queries) : ~queries[i].failed) =>
        /\ ~run_outcome[1].raised
        /\ DictKeys(run_outcome[1].value) =
              {"Mean Surface Temp", "Max Surface Temp", "Min Surface Temp",
               "Satellite Platform", "Spatial Resolution", "Correction Method"}

====
